---- MODULE Spec2Model ----
(***************************************************************************)
(* Model of textile's streaming response pattern-rewriting engine:         *)
(*   textile/core/response_pattern.py  (OnPattern)                         *)
(*   textile/core/response_handler.py  (StreamingResponseHandler)          *)
(*   textile/lite/completion.py        (stream wrappers)                   *)
(* Text is a sequence of one-character strings.  Offsets passed between    *)
(* operators are Python offsets (0-based, end-exclusive).                  *)
(***************************************************************************)
EXTENDS Integers, Sequences, FiniteSets, TLC

(***************************************************************************)
(* Bounds of the model                                                     *)
(***************************************************************************)
\* input budget of one handler: a character of a short chunk costs 1, and
\* so does an injected fault
MaxText == 5
\* length of the long filler chunk (a run of "b")
FillLen == 26
\* what a filler chunk costs of the input budget
FillCost == 2
\* largest max_buffer_size argument of the constructions explored
MaxBufferArg == 220
\* length of the long literal pattern
LongLen == 60

(***************************************************************************)
(* Program constants (response_handler.py:10-12)                           *)
(***************************************************************************)
MAX_BUFFER_SIZE == 10240
DEFAULT_SAFETY_MARGIN == 50
MIN_BUFFER_SIZE == 50

(***************************************************************************)
(* Python helpers                                                          *)
(***************************************************************************)
Max(a, b) == IF a >= b THEN a ELSE b
Min(a, b) == IF a <= b THEN a ELSE b

\* s[lo:hi] for lo >= 0: both ends are clamped to the length of s
PySlice(s, lo, hi) == SubSeq(s, Min(lo, Len(s)) + 1, Min(Max(hi, 0), Len(s)))

\* mutant: the slice starts one character late
PyFrom_SkipsOne(s, lo) == PySlice(s, lo + 1, Len(s))

\* s[lo:]
PyFrom(s, lo) == PySlice(s, lo, Len(s))

\* characters of the input text
Sigma == {"a", "b"}

\* every character a text can hold: input characters and replacement output
Chars == Sigma \cup {"X", "Y"}

(***************************************************************************)
(* The regular-expression engine (module re), for the pattern language     *)
(* used here: a sequence of atoms, an atom being an escaped or plain       *)
(* literal character or "." (any character), optionally followed by "+"    *)
(* (one or more, greedy, with backtracking).                               *)
(***************************************************************************)
\* characters re.escape puts a backslash in front of
SpecialChars == {".", "+", "\\"}

RECURSIVE re_escape(_)
re_escape(s) ==
    IF s = <<>> THEN <<>>
    ELSE (IF Head(s) \in SpecialChars THEN <<"\\", Head(s)>> ELSE <<Head(s)>>)
         \o re_escape(Tail(s))

\* re.compile: parse the pattern source from offset i (1-based) into atoms
RECURSIVE ParseAtoms(_, _)
ParseAtoms(src, i) ==
    IF i > Len(src) THEN <<>>
    ELSE LET esc  == src[i] = "\\" /\ i < Len(src)
             cls  == IF esc THEN {src[i + 1]}
                     ELSE IF src[i] = "." THEN Chars \cup SpecialChars
                     ELSE {src[i]}
             nxt  == IF esc THEN i + 2 ELSE i + 1
             plus == nxt <= Len(src) /\ src[nxt] = "+"
         IN  <<[cls |-> cls, plus |-> plus]>>
             \o ParseAtoms(src, IF plus THEN nxt + 1 ELSE nxt)

\* a compiled pattern object: .pattern is the source text, .flags the flags
re_compile(src, ignorecase) ==
    [pattern |-> src, atoms |-> ParseAtoms(src, 1), IGNORECASE |-> ignorecase]

Lower(c) == IF c = "A" THEN "a" ELSE IF c = "B" THEN "b" ELSE c

CharMatches(c, atom, ic) ==
    IF ic THEN Lower(c) \in {Lower(x) : x \in atom.cls} ELSE c \in atom.cls

\* length of the run of characters of atom's class in text from offset pos
RECURSIVE RunLen(_, _, _, _)
RunLen(atom, ic, text, pos) ==
    IF pos < Len(text) /\ CharMatches(text[pos + 1], atom, ic)
    THEN 1 + RunLen(atom, ic, text, pos + 1)
    ELSE 0

\* match atoms[k..] against text at offset pos: the end offset, or -1
RECURSIVE MatchFrom(_, _, _, _, _)
RECURSIVE TryPlus(_, _, _, _, _, _)
MatchFrom(atoms, ic, k, text, pos) ==
    IF k > Len(atoms) THEN pos
    ELSE IF ~(pos < Len(text) /\ CharMatches(text[pos + 1], atoms[k], ic))
    THEN -1
    ELSE IF atoms[k].plus
    THEN TryPlus(atoms, ic, k, text, pos, RunLen(atoms[k], ic, text, pos))
    ELSE MatchFrom(atoms, ic, k + 1, text, pos + 1)

\* the first of two attempts that matched
FirstMatch(r, other) == IF r >= 0 THEN r ELSE other

\* greedy "+": take j characters, backtrack to j-1 when the rest fails
TryPlus(atoms, ic, k, text, pos, j) ==
    IF j = 0 THEN -1
    ELSE FirstMatch(MatchFrom(atoms, ic, k + 1, text, pos + j),
                    TryPlus(atoms, ic, k, text, pos, j - 1))

\* pattern.match(text[pos:]): end offset in text of a match anchored at pos,
\* or -1 when there is none
re_match(re, text, pos) == MatchFrom(re.atoms, re.IGNORECASE, 1, text, pos)

\* the least element of a non-empty set of offsets
Least(S) == CHOOSE x \in S : \A y \in S : x <= y

\* the offsets from pos on at which re matches a non-empty text
MatchStarts(re, text, pos) ==
    {p \in pos..(Len(text) - 1) : re_match(re, text, p) > p}

\* pattern.finditer(text): the leftmost non-overlapping matches <<start, end>>
RECURSIVE FindIterFrom(_, _, _)
\* the match from p to e, then the matches from e on
FindIterStep(re, text, p, e) == <<<<p, e>>>> \o FindIterFrom(re, text, e)

FindIterAt(re, text, p) == FindIterStep(re, text, p, re_match(re, text, p))

\* starts: the offsets at which a match can still start
FindIterNext(re, text, starts) ==
    IF starts = {} THEN <<>> ELSE FindIterAt(re, text, Least(starts))

FindIterFrom(re, text, pos) ==
    FindIterNext(re, text, MatchStarts(re, text, pos))

finditer(re, text) == FindIterFrom(re, text, 0)

(***************************************************************************)
(* OnPattern (response_pattern.py)                                         *)
(* A constructor argument carries its Python type: a pattern argument is   *)
(*   [type |-> "str", val |-> text], [type |-> "re.Pattern", val |-> re]   *)
(*   or [type |-> "int"]; a replacement argument is                        *)
(*   [type |-> "str", val |-> text], [type |-> "int"] or                   *)
(*   [type |-> "function", params |-> n, raises |-> b, val |-> text].      *)
(***************************************************************************)
TypeError == [error |-> "TypeError"]

\* mutant: the replacement's type is not checked
OnPattern_NoReplacementCheck(pattern, replacement, ignore_case, max_replacements) ==
    IF pattern.type \notin {"str", "re.Pattern"} THEN TypeError
    ELSE [error |-> "",
          pattern |-> IF pattern.type = "str"
                      THEN re_compile(re_escape(pattern.val), ignore_case)
                      ELSE pattern.val,
          replacement |-> replacement,
          ignore_case |-> ignore_case,
          max_replacements |-> max_replacements,
          warned |-> pattern.type = "re.Pattern" /\ ignore_case
                     /\ ~pattern.val.IGNORECASE]

\* OnPattern.__post_init__: the constructed object, or TypeError
OnPattern(pattern, replacement, ignore_case, max_replacements) ==
    IF pattern.type \notin {"str", "re.Pattern"} THEN TypeError
    ELSE IF replacement.type \notin {"str", "function"} THEN TypeError
    ELSE [error |-> "",
          pattern |-> IF pattern.type = "str"
                      THEN re_compile(re_escape(pattern.val), ignore_case)
                      ELSE pattern.val,
          replacement |-> replacement,
          ignore_case |-> ignore_case,
          max_replacements |-> max_replacements,
          warned |-> pattern.type = "re.Pattern" /\ ignore_case
                     /\ ~pattern.val.IGNORECASE]

\* OnPattern.get_replacement(match): [raised, val].  A function of one
\* parameter is modelled by its text followed by the matched text; calling a
\* function of two parameters with the match alone raises.
get_replacement(handler, matched) ==
    LET r == handler.replacement
    IN  IF r.type = "str" THEN [raised |-> FALSE, val |-> r.val]
        ELSE IF r.raises \/ r.params > 1 THEN [raised |-> TRUE, val |-> <<>>]
        ELSE IF r.params = 0 THEN [raised |-> FALSE, val |-> r.val]
        ELSE [raised |-> FALSE, val |-> r.val \o matched]

(***************************************************************************)
(* StreamingResponseHandler (response_handler.py): the methods as          *)
(* functions of the fields they read                                       *)
(***************************************************************************)
RECURSIVE MaxPatternLen(_, _)
MaxPatternLen(pats, acc) ==
    IF pats = <<>> THEN acc
    ELSE MaxPatternLen(Tail(pats), Max(acc, Len(Head(pats).pattern.pattern)))

\* mutant: the minimum bounds the sum, not the pattern length
calculate_buffer_threshold_FloorsSum(pats, mbs) ==
    IF pats = <<>> THEN MIN_BUFFER_SIZE
    ELSE Min(Max(MaxPatternLen(pats, 0) + DEFAULT_SAFETY_MARGIN, MIN_BUFFER_SIZE),
             mbs \div 2)

\* mutant: the threshold is not capped at half of max_buffer_size
calculate_buffer_threshold_NoCap(pats, mbs) ==
    IF pats = <<>> THEN MIN_BUFFER_SIZE
    ELSE MaxPatternLen(pats, MIN_BUFFER_SIZE) + DEFAULT_SAFETY_MARGIN

\* _calculate_buffer_threshold
calculate_buffer_threshold(pats, mbs) ==
    IF pats = <<>> THEN MIN_BUFFER_SIZE
    ELSE Min(MaxPatternLen(pats, MIN_BUFFER_SIZE) + DEFAULT_SAFETY_MARGIN,
             mbs \div 2)

\* the offsets i of search_region at which a match starts before the
\* boundary and ends after it (lines 102-106 of _adjust_for_partial_pattern)
Straddlers(region, search_start, boundary, re) ==
    {i \in 0..(Len(region) - 1) :
        /\ re_match(re, region, i) >= 0
        /\ search_start + i < boundary
        /\ boundary < search_start + re_match(re, region, i)}

\* the scan of _adjust_for_partial_pattern: the start of the first such match
AdjustFirst(search_start, boundary, found) ==
    IF found = {} THEN boundary ELSE search_start + Least(found)

AdjustScan(region, search_start, boundary, re) ==
    AdjustFirst(search_start, boundary,
                Straddlers(region, search_start, boundary, re))

\* _adjust_for_partial_pattern
adjust_for_partial_pattern(buf, thr, boundary, re) ==
    IF boundary <= 0 \/ boundary >= Len(buf) THEN boundary
    ELSE AdjustScan(PySlice(buf, Max(0, boundary - thr), boundary + thr),
                    Max(0, boundary - thr), boundary, re)

\* mutant: a straddling match moves the boundary to its end
RECURSIVE PullBack_ToEnd(_, _)
PullBack_ToEnd(matches, safe_boundary) ==
    IF matches = <<>> THEN safe_boundary
    ELSE PullBack_ToEnd(Tail(matches),
                  IF Head(matches)[1] < safe_boundary
                     /\ safe_boundary < Head(matches)[2]
                  THEN Head(matches)[2] ELSE safe_boundary)

\* the finditer loop of _find_safe_boundary: pull the boundary back to the
\* start of each match that straddles it, in match order
RECURSIVE PullBack(_, _)
PullBack(matches, safe_boundary) ==
    IF matches = <<>> THEN safe_boundary
    ELSE PullBack(Tail(matches),
                  IF Head(matches)[1] < safe_boundary
                     /\ safe_boundary < Head(matches)[2]
                  THEN Head(matches)[1] ELSE safe_boundary)

\* the loop over the patterns of _find_safe_boundary
RECURSIVE BoundaryLoop(_, _, _, _)
BoundaryLoop(buf, pats, thr, safe_boundary) ==
    IF pats = <<>> THEN safe_boundary
    ELSE BoundaryLoop(buf, Tail(pats), thr,
             adjust_for_partial_pattern(buf, thr,
                 PullBack(finditer(Head(pats).pattern, buf), safe_boundary),
                 Head(pats).pattern))

\* mutant: a buffer of exactly max_buffer_size characters overflows
IsOverflow_AtLimit(buf, mbs) == Len(buf) >= mbs

\* the overflow test of _find_safe_boundary
IsOverflow(buf, mbs) == Len(buf) > mbs

\* mutant: a buffer beyond max_buffer_size waits for more text
find_safe_boundary_OverflowWaits(buf, pats, thr, mbs) ==
    IF Len(buf) < thr /\ Len(buf) < mbs THEN 0
    ELSE IF IsOverflow(buf, mbs) THEN 0
    ELSE Max(0, BoundaryLoop(buf, pats, thr, Len(buf) - thr))

\* mutant: the overflow branch is missing, the patterns are always consulted
find_safe_boundary_NoOverflowBranch(buf, pats, thr, mbs) ==
    IF Len(buf) < thr /\ Len(buf) < mbs THEN 0
    ELSE Max(0, BoundaryLoop(buf, pats, thr, Len(buf) - thr))

\* mutant: text is committed from half the threshold on
find_safe_boundary_HalfThreshold(buf, pats, thr, mbs) ==
    IF Len(buf) < thr \div 2 /\ Len(buf) < mbs THEN 0
    ELSE IF IsOverflow(buf, mbs) THEN Max(0, Len(buf) - thr \div 2)
    ELSE Max(0, BoundaryLoop(buf, pats, thr \div 2, Len(buf) - thr \div 2))

\* mutant: once the buffer has reached the threshold all of it is committed
find_safe_boundary_CommitsAll(buf, pats, thr, mbs) ==
    IF Len(buf) < thr /\ Len(buf) < mbs THEN 0 ELSE Len(buf)

\* _find_safe_boundary
find_safe_boundary(buf, pats, thr, mbs) ==
    IF Len(buf) < thr /\ Len(buf) < mbs THEN 0
    ELSE IF IsOverflow(buf, mbs) THEN Max(0, Len(buf) - thr)
    ELSE Max(0, BoundaryLoop(buf, pats, thr, Len(buf) - thr))

\* mutant: a failed replacement drops the matched text and is not counted
Replaced_DropsMatch(matched, made, r) ==
    IF r.raised THEN [out |-> <<>>, made |-> made, errors |-> 0]
    ELSE [out |-> r.val, made |-> made + 1, errors |-> 0]

\* mutant: a failed replacement is counted like a successful one
Replaced_CountsFailure(matched, made, r) ==
    IF r.raised THEN [out |-> matched, made |-> made + 1, errors |-> 1]
    ELSE [out |-> r.val, made |-> made + 1, errors |-> 0]

\* the try block of replace_func: r is what get_replacement did
Replaced(matched, made, r) ==
    IF r.raised THEN [out |-> matched, made |-> made, errors |-> 1]
    ELSE [out |-> r.val, made |-> made + 1, errors |-> 0]

\* mutant: the cap test lets one replacement too many through
replace_func_CapOffByOne(handler, matched, made) ==
    IF handler.max_replacements >= 0 /\ made > handler.max_replacements
    THEN [out |-> matched, made |-> made, errors |-> 0]
    ELSE Replaced(matched, made, get_replacement(handler, matched))

\* replace_func of _apply_single_pattern: [out, made, errors] for one match,
\* made being replacements_made before the call
replace_func(handler, matched, made) ==
    IF handler.max_replacements >= 0 /\ made >= handler.max_replacements
    THEN [out |-> matched, made |-> made, errors |-> 0]
    ELSE Replaced(matched, made, get_replacement(handler, matched))

\* pattern.sub(replace_func, text) from offset pos on, matches being the
\* matches of finditer not yet replaced: [out, made, errors]
RECURSIVE SubFrom(_, _, _, _, _)
\* the text before rest, which is the substitution of what follows
SubJoin(head, errors, rest) ==
    [out |-> head \o rest.out, made |-> rest.made,
     errors |-> errors + rest.errors]

\* r is what replace_func did with the match m
SubMatch(handler, text, matches, pos, m, r) ==
    SubJoin(PySlice(text, pos, m[1]) \o r.out, r.errors,
            SubFrom(handler, text, matches, m[2], r.made))

SubStep(handler, text, matches, pos, made, m) ==
    SubMatch(handler, text, matches, pos, m,
             replace_func(handler, PySlice(text, m[1], m[2]), made))

SubFrom(handler, text, matches, pos, made) ==
    IF matches = <<>>
    THEN [out |-> PyFrom(text, pos), made |-> made, errors |-> 0]
    ELSE SubStep(handler, text, Tail(matches), pos, made, Head(matches))

\* _apply_single_pattern: [out, made, errors]; made is what the call adds to
\* patterns_applied
apply_single_pattern(text, handler) ==
    SubFrom(handler, text, finditer(handler.pattern, text), 0, 0)

\* _apply_patterns: [raised, out, applied, errors].
\* subFault: the list positions whose _apply_single_pattern call raises; the
\* exception is caught at lines 120-123 (errors + 1, the running text kept).
\* escapeAt: a list position whose _apply_single_pattern call raises and
\* whose exception handler raises in turn (lines 121-122) before it counts
\* the error, so that the exception leaves _apply_patterns; 0 for none.
RECURSIVE ApplyLoop(_, _, _, _, _)
\* the counters of one pattern added to what the rest of the loop did
ApplyJoin(applied, errors, rest) ==
    [raised |-> rest.raised, out |-> rest.out,
     applied |-> applied + rest.applied, errors |-> errors + rest.errors]

\* mutant: the loop ends with the first pattern that replaced something
ApplyNext_StopsAfterReplacement(pats, k, subFault, escapeAt, r) ==
    ApplyJoin(r.made, r.errors,
              ApplyLoop(r.out, pats, IF r.made > 0 THEN Len(pats) + 1 ELSE k + 1,
                        subFault, escapeAt))

\* r is what _apply_single_pattern did for pattern k
ApplyNext(pats, k, subFault, escapeAt, r) ==
    ApplyJoin(r.made, r.errors, ApplyLoop(r.out, pats, k + 1, subFault, escapeAt))

ApplyLoop(result, pats, k, subFault, escapeAt) ==
    IF k > Len(pats)
    THEN [raised |-> FALSE, out |-> result, applied |-> 0, errors |-> 0]
    ELSE IF k = escapeAt
    THEN [raised |-> TRUE, out |-> result, applied |-> 0, errors |-> 0]
    ELSE IF k \in subFault
    THEN ApplyJoin(0, 1, ApplyLoop(result, pats, k + 1, subFault, escapeAt))
    ELSE ApplyNext(pats, k, subFault, escapeAt,
                   apply_single_pattern(result, pats[k]))

apply_patterns(text, pats, subFault, escapeAt) ==
    IF pats = <<>>
    THEN [raised |-> FALSE, out |-> text, applied |-> 0, errors |-> 0]
    ELSE ApplyLoop(text, pats, 1, subFault, escapeAt)

(***************************************************************************)
(* The public methods, as functions from a handler object h (a record of   *)
(* its fields) to the object after the call (h), the value returned (ret), *)
(* the text handed to _apply_patterns (processed), whether the overflow    *)
(* branch was taken (overflow), whether _apply_patterns raised (caught)    *)
(* and whether an exception left the method (escaped).                     *)
(***************************************************************************)
ZeroStats == [chunks_processed |-> 0, patterns_applied |-> 0, errors |-> 0]

\* StreamingResponseHandler.__init__
NewHandler(pats, mbs) ==
    [patterns |-> pats,
     max_buffer_size |-> mbs,
     buffer |-> <<>>,
     buffer_threshold |-> calculate_buffer_threshold(pats, mbs),
     stats |-> ZeroStats]

\* the counters after a call that processed a chunk (chunks) and applied
\* patterns with outcome r; caught: the caller's except branch counts an error
AddStats(st, chunks, r, caught) ==
    [chunks_processed |-> st.chunks_processed + chunks,
     patterns_applied |-> st.patterns_applied + r.applied,
     errors |-> st.errors + r.errors + (IF caught /\ r.raised THEN 1 ELSE 0)]

\* what a call did when it applied no pattern
Kept(h, overflow) ==
    [h |-> h, ret |-> <<>>, processed |-> <<>>, overflow |-> overflow,
     caught |-> FALSE, escaped |-> FALSE]

\* mutant: lines 62-67 of transform_chunk without the try/except
Commit_NoExcept(h, to_process, rest, overflow, r) ==
    [h |-> [h EXCEPT !.buffer = rest,
                     !.stats = AddStats(h.stats, 1, r, FALSE)],
     ret |-> IF r.raised THEN <<>> ELSE r.out,
     processed |-> to_process, overflow |-> overflow,
     caught |-> FALSE, escaped |-> r.raised]

\* lines 60-67 of transform_chunk: r is what _apply_patterns(to_process) did
Commit(h, to_process, rest, overflow, r) ==
    [h |-> [h EXCEPT !.buffer = rest,
                     !.stats = AddStats(h.stats, 1, r, TRUE)],
     ret |-> IF r.raised THEN to_process ELSE r.out,
     processed |-> to_process, overflow |-> overflow,
     caught |-> r.raised, escaped |-> FALSE]

\* mutant: the committed prefix is returned but stays in the buffer
SplitAt_KeepsWhole(h, buf, safe_boundary, subFault, escapeAt) ==
    IF safe_boundary <= 0
    THEN Kept([h EXCEPT !.buffer = buf,
                        !.stats.chunks_processed = @ + 1],
              IsOverflow(buf, h.max_buffer_size))
    ELSE Commit(h, PySlice(buf, 0, safe_boundary), buf,
                IsOverflow(buf, h.max_buffer_size),
                apply_patterns(PySlice(buf, 0, safe_boundary), h.patterns,
                               subFault, escapeAt))

\* mutant: a chunk is counted only when the call commits text
SplitAt_CountsCommitsOnly(h, buf, safe_boundary, subFault, escapeAt) ==
    IF safe_boundary <= 0
    THEN Kept([h EXCEPT !.buffer = buf], IsOverflow(buf, h.max_buffer_size))
    ELSE Commit(h, PySlice(buf, 0, safe_boundary), PyFrom(buf, safe_boundary),
                IsOverflow(buf, h.max_buffer_size),
                apply_patterns(PySlice(buf, 0, safe_boundary), h.patterns,
                               subFault, escapeAt))

\* mutant: the replacements of earlier calls count against max_replacements
SplitAt_StreamCap(h, buf, safe_boundary, subFault, escapeAt) ==
    IF safe_boundary <= 0
    THEN Kept([h EXCEPT !.buffer = buf,
                        !.stats.chunks_processed = @ + 1],
              IsOverflow(buf, h.max_buffer_size))
    ELSE Commit(h, PySlice(buf, 0, safe_boundary), PyFrom(buf, safe_boundary),
                IsOverflow(buf, h.max_buffer_size),
                apply_patterns(PySlice(buf, 0, safe_boundary),
                    [k \in 1..Len(h.patterns) |->
                        [h.patterns[k] EXCEPT !.max_replacements =
                            IF @ < 0 THEN @
                            ELSE Max(0, @ - h.stats.patterns_applied)]],
                    subFault, escapeAt))

\* lines 56-67 of transform_chunk: buf is the buffer after the append
SplitAt(h, buf, safe_boundary, subFault, escapeAt) ==
    IF safe_boundary <= 0
    THEN Kept([h EXCEPT !.buffer = buf,
                        !.stats.chunks_processed = @ + 1],
              IsOverflow(buf, h.max_buffer_size))
    ELSE Commit(h, PySlice(buf, 0, safe_boundary), PyFrom(buf, safe_boundary),
                IsOverflow(buf, h.max_buffer_size),
                apply_patterns(PySlice(buf, 0, safe_boundary), h.patterns,
                               subFault, escapeAt))

\* mutant: the chunk is counted before the test for an empty chunk
transform_chunk_CountsEmpty(h, chunk, subFault, escapeAt) ==
    IF chunk = <<>>
    THEN Kept([h EXCEPT !.stats.chunks_processed = @ + 1], FALSE)
    ELSE SplitAt(h, h.buffer \o chunk,
                 find_safe_boundary(h.buffer \o chunk, h.patterns,
                                    h.buffer_threshold, h.max_buffer_size),
                 subFault, escapeAt)

\* transform_chunk
transform_chunk(h, chunk, subFault, escapeAt) ==
    IF chunk = <<>> THEN Kept(h, FALSE)
    ELSE SplitAt(h, h.buffer \o chunk,
                 find_safe_boundary(h.buffer \o chunk, h.patterns,
                                    h.buffer_threshold, h.max_buffer_size),
                 subFault, escapeAt)

\* mutant: the except branch of flush clears the buffer before reading it
Flushed_LosesTail(h, r) ==
    [h |-> [h EXCEPT !.buffer = <<>>,
                     !.stats = AddStats(h.stats, 0, r, TRUE)],
     ret |-> IF r.raised THEN <<>> ELSE r.out,
     processed |-> h.buffer, overflow |-> FALSE,
     caught |-> r.raised, escaped |-> FALSE]

\* mutant: flush that returns the transformed text but keeps the buffer
Flushed_KeepsBuffer(h, r) ==
    [h |-> [h EXCEPT !.stats = AddStats(h.stats, 0, r, TRUE)],
     ret |-> IF r.raised THEN h.buffer ELSE r.out,
     processed |-> h.buffer, overflow |-> FALSE,
     caught |-> r.raised, escaped |-> FALSE]

\* lines 155-164 of flush: r is what _apply_patterns(self.buffer) did
Flushed(h, r) ==
    [h |-> [h EXCEPT !.buffer = <<>>,
                     !.stats = AddStats(h.stats, 0, r, TRUE)],
     ret |-> IF r.raised THEN h.buffer ELSE r.out,
     processed |-> h.buffer, overflow |-> FALSE,
     caught |-> r.raised, escaped |-> FALSE]

\* flush
flush(h, subFault, escapeAt) ==
    IF h.buffer = <<>> THEN Kept(h, FALSE)
    ELSE Flushed(h, apply_patterns(h.buffer, h.patterns, subFault, escapeAt))

\* mutant: the live dict is returned instead of a copy
get_stats_ReturnsLive(h) == [object |-> "self.stats", items |-> h.stats]

\* get_stats: self.stats.copy() is a new dict object with the same items
get_stats(h) == [object |-> "copy", items |-> h.stats]

(***************************************************************************)
(* The handlers and inputs explored                                        *)
(***************************************************************************)
Str(t) == [type |-> "str", val |-> t]
Fn(n, raises, t) == [type |-> "function", params |-> n, raises |-> raises, val |-> t]
Compiled(src) == [type |-> "re.Pattern", val |-> re_compile(src, FALSE)]

\* OnPattern("ab", "X"): a literal with no self-overlap
P_ab == OnPattern(Str(<<"a", "b">>), Str(<<"X">>), FALSE, -1)
\* OnPattern("aa", "X"): a literal whose occurrences overlap themselves
P_aa == OnPattern(Str(<<"a", "a">>), Str(<<"X">>), FALSE, -1)
\* OnPattern(re.compile("a+b"), lambda m: "Y" + m.group(0))
P_re == OnPattern(Compiled(<<"a", "+", "b">>), Fn(1, FALSE, <<"Y">>), FALSE, -1)
\* OnPattern("a", "X", max_replacements=1)
P_cap == OnPattern(Str(<<"a">>), Str(<<"X">>), FALSE, 1)
\* OnPattern("a", f) with f always raising
P_raise == OnPattern(Str(<<"a">>), Fn(1, TRUE, <<>>), FALSE, -1)
\* OnPattern("b", lambda: "Y")
P_b == OnPattern(Str(<<"b">>), Fn(0, FALSE, <<"Y">>), FALSE, -1)
\* OnPattern("a", "b") and OnPattern("bb", "X"): the second matches text the
\* first produces
P_a2b == OnPattern(Str(<<"a">>), Str(<<"b">>), FALSE, -1)
P_bb == OnPattern(Str(<<"b", "b">>), Str(<<"X">>), FALSE, -1)

PatternLists ==
    { <<>>, <<P_ab>>, <<P_aa>>, <<P_re>>, <<P_cap>>, <<P_raise, P_b>>,
      <<P_a2b, P_bb>> }

\* max_buffer_size arguments of the handlers fed short chunks: with a
\* non-empty pattern list the threshold is then 2; texts longer than 4
\* overflow the first and not the second
BufferSizes == {4, 5}

\* the handlers fed long chunks as well: a threshold of 50 needs more than 50
\* characters before anything is committed
LongHandlers ==
    { <<<<>>, 4>>, <<<<>>, 100>>, <<<<P_ab>>, 100>> }

\* the texts over Sigma of length at most n
RECURSIVE Texts(_)
Texts(n) ==
    IF n = 0 THEN {<<>>}
    ELSE LET shorter == Texts(n - 1)
         IN  shorter \cup {Append(t, c) : t \in {u \in shorter : Len(u) = n - 1},
                                          c \in Sigma}

Fill == [i \in 1..FillLen |-> "b"]

(***************************************************************************)
(* State                                                                   *)
(***************************************************************************)
VARIABLES
    patterns,          \* self.patterns
    max_buffer_size,   \* self.max_buffer_size
    buffer,            \* self.buffer
    buffer_threshold,  \* self.buffer_threshold
    stats,             \* self.stats
    op,                \* the method called last: name, argument, what it saw
    ret,               \* the value the last call returned
    flushed,           \* flush was called and no chunk was supplied since
    fed,               \* the chunks of the current stream, concatenated
    emitted,           \* the values returned for the current stream, concatenated
    committed,         \* the raw prefixes committed in the current stream
    forced,            \* a call of the current stream took the overflow branch
    nchar,             \* input budget used so far
    gen,               \* the stream wrapper (generator) around the handler
    peer               \* a second handler instance, called in between

hvars == <<patterns, max_buffer_size, buffer, buffer_threshold, stats,
           op, ret, flushed, fed, emitted, committed, forced, nchar, peer>>

vars == <<patterns, max_buffer_size, buffer, buffer_threshold, stats,
          op, ret, flushed, fed, emitted, committed, forced, nchar, gen, peer>>

\* the handler object
Self ==
    [patterns |-> patterns, max_buffer_size |-> max_buffer_size,
     buffer |-> buffer, buffer_threshold |-> buffer_threshold, stats |-> stats]

SetSelf(h) ==
    /\ patterns' = h.patterns
    /\ max_buffer_size' = h.max_buffer_size
    /\ buffer' = h.buffer
    /\ buffer_threshold' = h.buffer_threshold
    /\ stats' = h.stats

\* the record of a call: its name and argument, the faults injected, the
\* buffer and counters it found, and what the method did (r)
Call(name, chunk, subFault, escapeAt, r) ==
    [name |-> name, chunk |-> chunk, subFault |-> subFault,
     escapeAt |-> escapeAt, before |-> buffer, statsBefore |-> stats,
     processed |-> r.processed, overflow |-> r.overflow,
     caught |-> r.caught, escaped |-> r.escaped]

NoEffect == [processed |-> <<>>, overflow |-> FALSE, caught |-> FALSE,
             escaped |-> FALSE]

\* a stream wrapper that does not exist (the handler is driven directly)
NoGen == [pc |-> "none"]

\* no second handler was constructed
NoPeer == [on |-> FALSE]

\* the state after StreamingResponseHandler(pats, mbs)
InitWith(pats, mbs) ==
    /\ patterns = pats
    /\ max_buffer_size = mbs
    /\ buffer = <<>>
    /\ buffer_threshold = calculate_buffer_threshold(pats, mbs)
    /\ stats = ZeroStats
    /\ op = [name |-> "__init__", chunk |-> <<>>, subFault |-> {},
             escapeAt |-> 0, before |-> <<>>, statsBefore |-> ZeroStats,
             processed |-> <<>>, overflow |-> FALSE, caught |-> FALSE,
             escaped |-> FALSE]
    /\ ret = <<>>
    /\ flushed = FALSE
    /\ fed = <<>>
    /\ emitted = <<>>
    /\ committed = <<>>
    /\ forced = FALSE
    /\ nchar = 0

Init ==
    /\ \E pats \in PatternLists, mbs \in BufferSizes : InitWith(pats, mbs)
    /\ gen = NoGen /\ peer = NoPeer

\* the state after a transform_chunk(chunk) call that did r; a chunk after a
\* flush starts a new stream
AfterTransformChunk(chunk, subFault, escapeAt, fresh, r) ==
    /\ SetSelf(r.h)
    /\ ret' = r.ret
    /\ op' = Call("transform_chunk", chunk, subFault, escapeAt, r)
    /\ flushed' = (flushed /\ chunk = <<>>)
    /\ fed' = (IF fresh THEN <<>> ELSE fed) \o chunk
    /\ emitted' = (IF fresh THEN <<>> ELSE emitted) \o r.ret
    /\ committed' = (IF fresh THEN <<>> ELSE committed) \o r.processed
    /\ forced' = ((~fresh /\ forced) \/ r.overflow)

\* handler.transform_chunk(chunk)
DoTransformChunk(chunk, subFault, escapeAt) ==
    AfterTransformChunk(chunk, subFault, escapeAt, flushed /\ chunk # <<>>,
                        transform_chunk(Self, chunk, subFault, escapeAt))

TransformChunk ==
    /\ \E chunk \in Texts(MaxText - nchar) :
          /\ DoTransformChunk(chunk, {}, 0)
          /\ nchar' = nchar + Len(chunk)
    /\ UNCHANGED <<gen, peer>>

TransformFill ==
    /\ nchar + FillCost <= MaxText
    /\ DoTransformChunk(Fill, {}, 0)
    /\ nchar' = nchar + FillCost
    /\ UNCHANGED <<gen, peer>>

\* the state after a flush() call that did r
AfterFlush(subFault, escapeAt, r) ==
    /\ SetSelf(r.h)
    /\ ret' = r.ret
    /\ op' = Call("flush", <<>>, subFault, escapeAt, r)
    /\ flushed' = TRUE
    /\ emitted' = emitted \o r.ret
    /\ UNCHANGED <<fed, committed, forced>>

\* handler.flush()
DoFlush(subFault, escapeAt) ==
    AfterFlush(subFault, escapeAt, flush(Self, subFault, escapeAt))

Flush ==
    /\ DoFlush({}, 0)
    /\ UNCHANGED <<nchar, gen, peer>>

\* handler.get_stats()
GetStats ==
    /\ ret' = get_stats(Self)
    /\ op' = Call("get_stats", <<>>, {}, 0, NoEffect)
    /\ UNCHANGED <<patterns, max_buffer_size, buffer, buffer_threshold, stats,
                   flushed, fed, emitted, committed, forced, nchar, gen, peer>>

Next == TransformChunk \/ Flush \/ GetStats

Spec == Init /\ [][Next]_vars

(***************************************************************************)
(* The handlers with a threshold of 50, fed long chunks too                *)
(***************************************************************************)
InitLong ==
    /\ \E pats \in PatternLists, mbs \in {4, 100} :
          <<pats, mbs>> \in LongHandlers /\ InitWith(pats, mbs)
    /\ gen = NoGen /\ peer = NoPeer

NextLong == TransformChunk \/ TransformFill \/ Flush \/ GetStats

SpecLong == InitLong /\ [][NextLong]_vars

(***************************************************************************)
(* Pattern application that raises: exceptions injected into               *)
(* _apply_single_pattern                                                   *)
(***************************************************************************)
FaultHandlers == { <<<<P_raise, P_b>>, 4>>, <<<<P_cap>>, 4>> }

InitFault ==
    /\ \E pats \in PatternLists, mbs \in BufferSizes :
          <<pats, mbs>> \in FaultHandlers /\ InitWith(pats, mbs)
    /\ gen = NoGen /\ peer = NoPeer

\* transform_chunk during which the _apply_single_pattern call of pattern k
\* raises; the exception leaves _apply_patterns when escapes.  An injected
\* fault costs one unit of the input budget.
TransformChunkFault ==
    /\ nchar < MaxText
    /\ \E chunk \in Texts(MaxText - nchar - 1) \ {<<>>},
          k \in 1..Len(patterns), escapes \in BOOLEAN :
          /\ DoTransformChunk(chunk, IF escapes THEN {} ELSE {k},
                              IF escapes THEN k ELSE 0)
          /\ nchar' = nchar + Len(chunk) + 1
    /\ UNCHANGED <<gen, peer>>

\* flush during which the _apply_single_pattern call of pattern k raises
FlushFault ==
    /\ nchar < MaxText
    /\ \E k \in 1..Len(patterns), escapes \in BOOLEAN :
          DoFlush(IF escapes THEN {} ELSE {k}, IF escapes THEN k ELSE 0)
    /\ nchar' = nchar + 1
    /\ UNCHANGED <<gen, peer>>

NextFault ==
    TransformChunk \/ Flush \/ GetStats \/ TransformChunkFault \/ FlushFault

SpecFault == InitFault /\ [][NextFault]_vars

(***************************************************************************)
(* Construction: the handlers StreamingResponseHandler(pats, mbs) over a   *)
(* range of arguments                                                      *)
(***************************************************************************)
\* OnPattern("aaa...a", "X") with a source longer than MIN_BUFFER_SIZE
P_long == OnPattern(Str([i \in 1..LongLen |-> "a"]), Str(<<"X">>), FALSE, -1)

BufferArgs == (0..MaxBufferArg) \cup {MAX_BUFFER_SIZE}

InitNew ==
    /\ \E pats \in PatternLists \cup {<<P_long>>, <<P_ab, P_long>>},
          mbs \in BufferArgs : InitWith(pats, mbs)
    /\ gen = NoGen /\ peer = NoPeer

NextNew == Flush \/ GetStats

SpecNew == InitNew /\ [][NextNew]_vars

(***************************************************************************)
(* The caller writes to the dict that get_stats returned                   *)
(***************************************************************************)
SnapHandlers == { <<<<P_ab>>, 4>>, <<<<P_raise, P_b>>, 4>> }

InitSnap ==
    /\ \E pats \in PatternLists, mbs \in BufferSizes :
          <<pats, mbs>> \in SnapHandlers /\ InitWith(pats, mbs)
    /\ gen = NoGen /\ peer = NoPeer

\* snapshot[key] += 1 on the dict the last call, a get_stats, returned: a
\* write to the object self.stats is a write to the live counters.  The
\* write costs one unit of the input budget.
WriteSnapshot ==
    /\ op.name = "get_stats"
    /\ nchar < MaxText
    /\ \E key \in DOMAIN ret.items :
          /\ ret' = [ret EXCEPT !.items[key] = @ + 1]
          /\ stats' = IF ret.object = "self.stats"
                      THEN [stats EXCEPT ![key] = @ + 1] ELSE stats
    /\ op' = Call("write", <<>>, {}, 0, NoEffect)
    /\ nchar' = nchar + 1
    /\ UNCHANGED <<patterns, max_buffer_size, buffer, buffer_threshold,
                   flushed, fed, emitted, committed, forced, gen, peer>>

NextSnap == TransformChunk \/ Flush \/ GetStats \/ WriteSnapshot

SpecSnap == InitSnap /\ [][NextSnap]_vars

(***************************************************************************)
(* Constructing an OnPattern from arguments of any type                    *)
(***************************************************************************)
\* a value of a type that is neither str, re.Pattern nor callable
Other(type) == [type |-> type]

PatternArgs ==
    { Str(t) : t \in { <<>>, <<"a">>, <<"a", "b">>, <<"a", "+">>,
                       <<".", "b">>, <<"A", "b">> } }
    \cup { Compiled(<<"a", "+", "b">>),
           [type |-> "re.Pattern", val |-> re_compile(<<"a">>, TRUE)] }
    \cup { Other("int"), Other("NoneType"), Other("list") }

ReplacementArgs ==
    { Str(<<"X">>), Str(<<>>), Fn(0, FALSE, <<"Y">>), Fn(1, FALSE, <<"Y">>),
      Fn(2, FALSE, <<>>), Fn(1, TRUE, <<>>) }
    \cup { Other("int"), Other("NoneType"), Other("list") }

MaxReplacementsArgs == {-1, 0, 1}

\* no handler takes part: the handler fields are those of an empty handler
InitPattern == InitWith(<<>>, 4) /\ gen = NoGen /\ peer = NoPeer

\* OnPattern(pattern, replacement, ignore_case, max_replacements): op holds
\* the arguments, ret the object constructed or the TypeError raised
Construct ==
    /\ \E pattern \in PatternArgs, replacement \in ReplacementArgs,
          ignore_case \in BOOLEAN, max_replacements \in MaxReplacementsArgs :
          /\ op' = [name |-> "OnPattern", pattern |-> pattern,
                    replacement |-> replacement, ignore_case |-> ignore_case,
                    max_replacements |-> max_replacements]
          /\ ret' = OnPattern(pattern, replacement, ignore_case, max_replacements)
    /\ UNCHANGED <<patterns, max_buffer_size, buffer, buffer_threshold, stats,
                   flushed, fed, emitted, committed, forced, nchar, gen, peer>>

NextPattern == Construct

SpecPattern == InitPattern /\ [][NextPattern]_vars

(***************************************************************************)
(* Two handler instances, called in any order.  The first is the handler   *)
(* of the state variables; peer holds the second (h, ret), the identities  *)
(* of the two stats dicts, and for each handler a copy that receives that  *)
(* handler's calls only (alone, aloneRet).                                 *)
(***************************************************************************)
\* mutant: the counters are one dict shared by all instances
StatsObject_ClassLevel(n) == 0

\* the identity of self.stats of the n-th handler constructed: the dict
\* display in __init__ makes a new object at every call
StatsObject(n) == n

\* the pattern lists of the two handlers: the same list, or two lists
IsoPatternLists == { << <<P_ab>>, <<P_ab>> >>, << <<P_ab>>, <<P_cap>> >> }

NewPeer(pats1, pats2, mbs) ==
    [on |-> TRUE,
     stats_id |-> <<StatsObject(1), StatsObject(2)>>,
     h |-> NewHandler(pats2, mbs),
     ret |-> <<>>,
     alone |-> <<NewHandler(pats1, mbs), NewHandler(pats2, mbs)>>,
     aloneRet |-> << <<>>, <<>> >>]

InitIso ==
    /\ \E pats1 \in PatternLists, pats2 \in PatternLists :
          /\ <<pats1, pats2>> \in IsoPatternLists
          /\ InitWith(pats1, 4)
          /\ peer = NewPeer(pats1, pats2, 4)
    /\ gen = NoGen

\* both handlers write their counters to the same dict object
SameStats == peer.stats_id[1] = peer.stats_id[2]

\* a call on the first handler: the second sees the counters through its own
\* reference; alone did ra
IsoFirst(ra) ==
    peer' = [peer EXCEPT !.h.stats = IF SameStats THEN stats' ELSE @,
                         !.alone[1] = ra.h,
                         !.aloneRet[1] = ra.ret]

\* a call on the second handler did r; alone it did ra
IsoSecond(r, ra) ==
    /\ peer' = [peer EXCEPT !.h = r.h, !.ret = r.ret,
                            !.alone[2] = ra.h, !.aloneRet[2] = ra.ret]
    /\ stats' = IF SameStats THEN r.h.stats ELSE stats
    /\ UNCHANGED <<patterns, max_buffer_size, buffer, buffer_threshold,
                   op, ret, flushed, fed, emitted, committed, forced, gen>>

IsoTransformChunk1 ==
    /\ \E chunk \in Texts(MaxText - nchar) :
          /\ DoTransformChunk(chunk, {}, 0)
          /\ IsoFirst(transform_chunk(peer.alone[1], chunk, {}, 0))
          /\ nchar' = nchar + Len(chunk)
    /\ UNCHANGED gen

IsoFlush1 ==
    /\ DoFlush({}, 0)
    /\ IsoFirst(flush(peer.alone[1], {}, 0))
    /\ UNCHANGED <<nchar, gen>>

IsoTransformChunk2 ==
    \E chunk \in Texts(MaxText - nchar) :
       /\ IsoSecond(transform_chunk(peer.h, chunk, {}, 0),
                    transform_chunk(peer.alone[2], chunk, {}, 0))
       /\ nchar' = nchar + Len(chunk)

IsoFlush2 ==
    /\ IsoSecond(flush(peer.h, {}, 0), flush(peer.alone[2], {}, 0))
    /\ UNCHANGED nchar

NextIso == IsoTransformChunk1 \/ IsoFlush1 \/ IsoTransformChunk2 \/ IsoFlush2

SpecIso == InitIso /\ [][NextIso]_vars

(***************************************************************************)
(* Handlers whose pattern is longer than the threshold                     *)
(***************************************************************************)
\* OnPattern("aaab", "X"): with max_buffer_size 4 or 5 the threshold is 2
P_aaab == OnPattern(Str(<<"a", "a", "a", "b">>), Str(<<"X">>), FALSE, -1)

PartialHandlers ==
    { <<<<P_aaab>>, 4>>, <<<<P_aaab>>, 5>>, <<<<P_ab>>, 4>>, <<<<P_aa>>, 5>> }

InitPartial ==
    /\ \E pats \in PatternLists \cup {<<P_aaab>>}, mbs \in BufferSizes :
          <<pats, mbs>> \in PartialHandlers /\ InitWith(pats, mbs)
    /\ gen = NoGen /\ peer = NoPeer

NextPartial == TransformChunk \/ Flush \/ GetStats

SpecPartial == InitPartial /\ [][NextPartial]_vars

(***************************************************************************)
(* Handlers whose replacements are capped, fail, or both                   *)
(***************************************************************************)
\* OnPattern("a", f, max_replacements=1) with an f that always raises
P_capraise == OnPattern(Str(<<"a">>), Fn(1, TRUE, <<>>), FALSE, 1)

CountHandlers ==
    { <<<<P_capraise>>, 4>>, <<<<P_cap>>, 4>>, <<<<P_raise, P_b>>, 4>>,
      <<<<P_a2b, P_bb>>, 5>> }

InitCount ==
    /\ \E pats \in PatternLists \cup {<<P_capraise>>}, mbs \in BufferSizes :
          <<pats, mbs>> \in CountHandlers /\ InitWith(pats, mbs)
    /\ gen = NoGen /\ peer = NoPeer

NextCount == TransformChunk \/ Flush \/ GetStats

SpecCount == InitCount /\ [][NextCount]_vars

(***************************************************************************)
(* The stream wrappers _sync_stream_gen / _async_stream_gen                *)
(* (lite/completion.py).  gen is the generator object: where it stands     *)
(* (pc), whether its body was ever entered (started), how often its        *)
(* finally block called handler.flush() (flush_calls), whether             *)
(* transform_chunk was called after a flush (late), how the stream ended   *)
(* (how), the exception that is raised again when the finally block ends   *)
(* (pending), the exception the consumer got last (error), the contents    *)
(* of the chunks yielded so far, concatenated (out), and what the last     *)
(* step yielded (last): "content" a chunk with its content set to the      *)
(* transformed text, "nocontent" an upstream chunk as it came, "flush" the *)
(* chunk made by _create_flush_chunk, "none" nothing.                      *)
(*   pc = "created"    not started: no next() yet                          *)
(*        "running"    inside next(), between two upstream items           *)
(*        "suspended"  at the yield of the for loop                        *)
(*        "final"      at the yield of the finally block                   *)
(*        "done"       finished                                            *)
(***************************************************************************)
NewGen ==
    [pc |-> "created", started |-> FALSE, flush_calls |-> 0, late |-> FALSE,
     how |-> "", pending |-> "none", error |-> "none",
     out |-> <<>>, last |-> "none"]

\* the handlers _handle_streaming_response builds: the default max_buffer_size
StreamPatternLists == { <<>>, <<P_ab>> }

InitStream ==
    /\ \E pats \in PatternLists :
          pats \in StreamPatternLists /\ InitWith(pats, MAX_BUFFER_SIZE)
    /\ gen = NewGen /\ peer = NoPeer

\* the generator is where a next() of the consumer, or the for loop itself,
\* asks the upstream for its next item
AtLoop == gen.pc \in {"created", "running", "suspended"}

\* mutant: the chunk is yielded with the content it came with
StreamContent_YieldsOriginal(chunk, cost) ==
    /\ AtLoop
    /\ nchar + cost <= MaxText
    /\ DoTransformChunk(chunk, {}, 0)
    /\ nchar' = nchar + cost
    /\ gen' = [gen EXCEPT !.pc = IF ret' # <<>> THEN "suspended" ELSE "running",
                          !.started = TRUE,
                          !.late = @ \/ gen.flush_calls > 0,
                          !.out = @ \o (IF ret' # <<>> THEN chunk ELSE <<>>),
                          !.last = IF ret' # <<>> THEN "content" ELSE "none"]
    /\ UNCHANGED peer

\* the upstream yields a chunk with content: _process_stream_chunk calls
\* transform_chunk and the chunk is yielded when the result is not empty
StreamContent(chunk, cost) ==
    /\ AtLoop
    /\ nchar + cost <= MaxText
    /\ DoTransformChunk(chunk, {}, 0)
    /\ nchar' = nchar + cost
    /\ gen' = [gen EXCEPT !.pc = IF ret' # <<>> THEN "suspended" ELSE "running",
                          !.started = TRUE,
                          !.late = @ \/ gen.flush_calls > 0,
                          !.out = @ \o ret',
                          !.last = IF ret' # <<>> THEN "content" ELSE "none"]
    /\ UNCHANGED peer

StreamChunk == \E chunk \in Texts(MaxText - nchar) : StreamContent(chunk, Len(chunk))

StreamFill == StreamContent(Fill, FillCost)

\* the upstream yields a chunk without content (_extract_chunk_content is
\* None): it is yielded as it is and the handler is not called
StreamNoContent ==
    /\ AtLoop
    /\ gen' = [gen EXCEPT !.pc = "suspended", !.started = TRUE,
                          !.last = "nocontent"]
    /\ UNCHANGED hvars

\* the finally block, entered with the exception exc in flight ("none" when
\* the loop ended): flush, and a final chunk is yielded when flush returned
\* text; otherwise the generator finishes and exc is raised again.  close()
\* swallows the GeneratorExit of a generator that finishes and raises
\* RuntimeError when the generator yields instead.
Finally(how, exc) ==
    /\ DoFlush({}, 0)
    /\ UNCHANGED nchar
    /\ gen' = [gen EXCEPT !.pc = IF ret' # <<>> THEN "final" ELSE "done",
                          !.started = TRUE,
                          !.flush_calls = @ + 1,
                          !.how = how,
                          !.pending = IF ret' # <<>> THEN exc ELSE "none",
                          !.out = @ \o ret',
                          !.last = IF ret' # <<>> THEN "flush" ELSE "none",
                          !.error = IF exc = "GeneratorExit"
                                    THEN (IF ret' # <<>> THEN "RuntimeError" ELSE @)
                                    ELSE (IF ret' = <<>> /\ exc # "none"
                                          THEN exc ELSE @)]
    /\ UNCHANGED peer

\* the upstream is exhausted: the for loop ends
StreamExhausted == AtLoop /\ Finally("exhausted", "none")

\* mutant: the flush sits after the loop instead of in a finally block, so an
\* upstream exception skips it
StreamRaises_NoFinally ==
    /\ AtLoop
    /\ gen' = [gen EXCEPT !.pc = "done", !.started = TRUE, !.how = "raised",
                          !.error = "upstream", !.last = "none"]
    /\ UNCHANGED hvars

\* the upstream raises
StreamRaises == AtLoop /\ Finally("raised", "upstream")

\* the consumer stops before the first next(): close() on a generator that
\* was never started (or its finalisation) does not enter the body
CloseUnstarted ==
    /\ gen.pc = "created"
    /\ gen' = [gen EXCEPT !.pc = "done", !.how = "closed", !.last = "none"]
    /\ UNCHANGED hvars

\* the consumer stops early: close() raises GeneratorExit at the yield of the
\* loop; a final chunk yielded from the finally block makes close() raise
\* RuntimeError and leaves the generator at that yield
CloseSuspended == gen.pc = "suspended" /\ Finally("closed", "GeneratorExit")

\* close() at the yield of the finally block: the generator finishes
CloseFinal ==
    /\ gen.pc = "final"
    /\ gen' = [gen EXCEPT !.pc = "done", !.pending = "none", !.last = "none"]
    /\ UNCHANGED hvars

\* next() at the yield of the finally block: the generator finishes with
\* StopIteration, or with the exception that was in flight
ResumeFinal ==
    /\ gen.pc = "final"
    /\ gen' = [gen EXCEPT !.pc = "done", !.pending = "none", !.last = "none",
                          !.error = IF gen.pending # "none" THEN gen.pending ELSE @]
    /\ UNCHANGED hvars

NextStream ==
    \/ StreamChunk \/ StreamFill \/ StreamNoContent
    \/ StreamExhausted \/ StreamRaises
    \/ CloseUnstarted \/ CloseSuspended \/ CloseFinal \/ ResumeFinal

SpecStream == InitStream /\ [][NextStream]_vars

(***************************************************************************)
(* Vocabulary of the properties                                            *)
(***************************************************************************)
\* what a fresh handler with the same patterns and max_buffer_size returns
\* for the whole text T given as one chunk and then flushed
ThenFlush(r1) == r1.ret \o flush(r1.h, {}, 0).ret

SingleChunkOut(T) ==
    ThenFlush(transform_chunk(NewHandler(patterns, max_buffer_size), T, {}, 0))

\* one _apply_patterns call on the whole of T
WholeApplyOut(T) == apply_patterns(T, patterns, {}, 0).out

\* every pattern's source is no longer than the retention threshold
PatternsFitThreshold ==
    \A k \in 1..Len(patterns) :
        Len(patterns[k].pattern.pattern) <= buffer_threshold

\* a stream has just been ended by flush
StreamEnded == flushed /\ op.name = "flush"

\* the call made last was made without an injected fault
PlainCall == op.subFault = {} /\ op.escapeAt = 0

\* the last call handed text to _apply_patterns
Applied == op.name \in {"transform_chunk", "flush"} /\ op.processed # <<>>

(***************************************************************************)
(* C1  No split-match                                                      *)
(***************************************************************************)
\* no pattern has a replacement cap (the cap is counted per _apply_patterns
\* call, so it depends on the chunking by design)
Uncapped == \A k \in 1..Len(patterns) : patterns[k].max_replacements < 0

\* C1: whenever a stream of chunks is ended by flush and every pattern's
\* length is at most buffer_threshold, the concatenation of the values
\* returned equals what the whole text returns as a single chunk followed by
\* flush.  The claim is taken with the two exceptions the handler makes on
\* purpose: no pattern is capped, and the text is no longer than
\* max_buffer_size, so that no call takes the overflow branch.
C1_AnySplitEqualsSingleChunk ==
    (StreamEnded /\ PatternsFitThreshold /\ Uncapped
        /\ Len(fed) <= max_buffer_size)
    => emitted = SingleChunkOut(fed)

(***************************************************************************)
(* C2  A single chunk equals one _apply_patterns call                      *)
(***************************************************************************)
\* the handler got exactly one non-empty chunk since construction, then flush
FreshSingleChunk == StreamEnded /\ stats.chunks_processed = 1

\* C2: on a fresh handler, transform_chunk(T) + flush() equals one
\* _apply_patterns(T) call on the whole of T, for any pattern list and text.
C2_SingleChunkEqualsWholeApply ==
    FreshSingleChunk => emitted = WholeApplyOut(fed)

(***************************************************************************)
(* C3  Buffer bound                                                        *)
(***************************************************************************)
\* C3: immediately after each transform_chunk call the buffer is no longer
\* than max_buffer_size, for every handler.
C3_BufferWithinMax ==
    op.name = "transform_chunk" => Len(buffer) <= max_buffer_size

(***************************************************************************)
(* C4  Empty pattern list is lossless                                      *)
(***************************************************************************)
\* C4: with an empty pattern list, the values returned by the transform_chunk
\* calls of a stream, in call order, followed by what flush returns, are the
\* input chunks concatenated: before the flush the returned text followed by
\* the buffer is the input so far, and after it the returned text is the
\* input.
C4_EmptyListIsLossless ==
    patterns = <<>> =>
        /\ emitted \o buffer = fed
        /\ StreamEnded => (emitted = fed /\ buffer = <<>>)

\* C4 witness: a stream over an empty pattern list in which transform_chunk
\* itself returned text (more than the threshold was buffered) and flush
\* returned the rest
C4_WitnessLongStream ==
    /\ patterns = <<>> /\ StreamEnded
    /\ committed # <<>> /\ ret # <<>>
    /\ Len(fed) > MIN_BUFFER_SIZE
    /\ emitted = fed

(***************************************************************************)
(* C5  Fail-open                                                           *)
(***************************************************************************)
\* the replacement of the pattern is a function that always raises
AlwaysRaises(handler) ==
    handler.replacement.type = "function" /\ handler.replacement.raises

\* the list without the patterns whose replacement always raises
RECURSIVE WithoutRaising(_)
WithoutRaising(pats) ==
    IF pats = <<>> THEN <<>>
    ELSE (IF AlwaysRaises(Head(pats)) THEN <<>> ELSE <<Head(pats)>>)
         \o WithoutRaising(Tail(pats))

\* the matches the always-raising patterns from position k on find, each in
\* the text the patterns before it produce when the raising ones are identity
RECURSIVE FailedMatches(_, _, _)
FailedMatches(text, pats, k) ==
    IF k > Len(pats) THEN 0
    ELSE (IF AlwaysRaises(pats[k]) /\ pats[k].max_replacements # 0
          THEN Len(finditer(pats[k].pattern,
                   apply_patterns(text, WithoutRaising(SubSeq(pats, 1, k - 1)),
                                  {}, 0).out))
          ELSE 0)
         + FailedMatches(text, pats, k + 1)

\* C5: when a call applies a pattern list containing a pattern whose
\* replacement function always raises, the result is what the other patterns
\* alone produce (every match of the raising pattern stays as it was, the
\* other patterns replace as if the raising one were the identity), errors
\* grows by one per match of the raising pattern, and patterns_applied by the
\* replacements of the others.
C5_FailOpen ==
    (Applied /\ PlainCall /\ \E k \in 1..Len(patterns) : AlwaysRaises(patterns[k]))
    => /\ ret = apply_patterns(op.processed, WithoutRaising(patterns), {}, 0).out
       /\ stats.errors - op.statsBefore.errors
              = FailedMatches(op.processed, patterns, 1)
       /\ stats.patterns_applied - op.statsBefore.patterns_applied
              = apply_patterns(op.processed, WithoutRaising(patterns), {}, 0).applied

\* C5 witness: "aba" applied with [raising "a", "b" -> "Y"]: both "a" stay,
\* "b" is replaced, two errors are counted
C5_WitnessTwoFailedMatches ==
    /\ patterns = <<P_raise, P_b>>
    /\ Applied /\ PlainCall
    /\ op.processed = <<"a", "b", "a">>
    /\ ret = <<"a", "Y", "a">>
    /\ stats.errors = op.statsBefore.errors + 2

(***************************************************************************)
(* C6  Replacement cap                                                     *)
(***************************************************************************)
\* text from offset pos on with the first k of the given matches replaced
\* (all of them when k is negative) and the others left as they are
RECURSIVE ReplaceFirst(_, _, _, _, _)
ReplaceFirst(handler, text, matches, pos, k) ==
    IF matches = <<>> THEN PyFrom(text, pos)
    ELSE PySlice(text, pos, Head(matches)[1])
         \o (IF k = 0 THEN PySlice(text, Head(matches)[1], Head(matches)[2])
             ELSE get_replacement(handler,
                      PySlice(text, Head(matches)[1], Head(matches)[2])).val)
         \o ReplaceFirst(handler, text, Tail(matches), Head(matches)[2],
                         IF k > 0 THEN k - 1 ELSE k)

\* the number of matches of the pattern in the text
Occurrences(handler, text) == Len(finditer(handler.pattern, text))

\* C6: when a call applies a single pattern with max_replacements = k to a
\* text with n matches, the k leftmost matches are replaced and the other
\* n-k are left as original text when 0 <= k < n, every match is replaced
\* when k is negative (or k >= n), and patterns_applied grows by the number
\* of replacements.
C6_ReplacementCap ==
    (Applied /\ PlainCall /\ Len(patterns) = 1 /\ ~AlwaysRaises(patterns[1]))
    => /\ ret = ReplaceFirst(patterns[1], op.processed,
                             finditer(patterns[1].pattern, op.processed), 0,
                             patterns[1].max_replacements)
       /\ stats.patterns_applied - op.statsBefore.patterns_applied
              = IF patterns[1].max_replacements < 0
                THEN Occurrences(patterns[1], op.processed)
                ELSE Min(Occurrences(patterns[1], op.processed),
                         patterns[1].max_replacements)

\* C6 witness: "a" -> "X" capped at 1 applied to "aaa": only the leftmost
\* match is replaced
C6_WitnessCapReached ==
    /\ patterns = <<P_cap>>
    /\ Applied /\ PlainCall
    /\ op.processed = <<"a", "a", "a">>
    /\ ret = <<"X", "a", "a">>
    /\ stats.patterns_applied = op.statsBefore.patterns_applied + 1

(***************************************************************************)
(* C7  Errors never propagate                                              *)
(***************************************************************************)
\* the handler as the last call found it
SelfBefore ==
    [patterns |-> patterns, max_buffer_size |-> max_buffer_size,
     buffer |-> op.before, buffer_threshold |-> buffer_threshold,
     stats |-> op.statsBefore]

\* C7: no call of transform_chunk or flush lets an exception out; a pattern
\* list whose replacement functions or _apply_single_pattern calls raise never
\* makes _apply_patterns raise; and when pattern application does raise
\* inside transform_chunk, the call counts an error, returns exactly the
\* committed prefix to_process untransformed, and keeps the buffer the same
\* call keeps when nothing fails.
C7_ErrorsNeverPropagate ==
    /\ op.name \in {"transform_chunk", "flush"} => ~op.escaped
    /\ (Applied /\ op.escapeAt = 0) => ~op.caught
    /\ (op.name = "transform_chunk" /\ op.caught)
       => /\ ret = op.processed
          /\ stats.errors > op.statsBefore.errors
          /\ op.processed \o buffer = op.before \o op.chunk
          /\ buffer = transform_chunk(SelfBefore, op.chunk, {}, 0).h.buffer

\* C7 witness: pattern application raised inside a transform_chunk call that
\* committed a prefix and retained a suffix
C7_WitnessCaughtInTransformChunk ==
    /\ op.name = "transform_chunk" /\ op.caught
    /\ op.processed # <<>> /\ buffer # <<>>
    /\ ret = op.processed
    /\ stats.errors = op.statsBefore.errors + 1

(***************************************************************************)
(* C8  Threshold range                                                     *)
(***************************************************************************)
\* C8: for every handler that can be constructed, buffer_threshold is at
\* least the fixed minimum 50 and at most half of max_buffer_size.
C8_ThresholdInRange ==
    /\ buffer_threshold >= MIN_BUFFER_SIZE
    /\ 2 * buffer_threshold <= max_buffer_size

\* C8 amended: the range holds for every handler with max_buffer_size >= 100;
\* below that a handler with patterns has buffer_threshold =
\* max_buffer_size // 2, which is under the minimum.
C8_ThresholdInRangeFrom100 ==
    /\ max_buffer_size >= 2 * MIN_BUFFER_SIZE
       => /\ buffer_threshold >= MIN_BUFFER_SIZE
          /\ 2 * buffer_threshold <= max_buffer_size
    /\ (max_buffer_size < 2 * MIN_BUFFER_SIZE /\ patterns # <<>>)
       => buffer_threshold = max_buffer_size \div 2

\* C8 witness: a handler whose longest pattern (60 characters) puts the
\* threshold above half of max_buffer_size = 200, where the cap brings it to
\* exactly the half
C8_WitnessCappedAtHalf ==
    /\ op.name = "__init__"
    /\ patterns = <<P_long>>
    /\ max_buffer_size = 200
    /\ buffer_threshold = 100

(***************************************************************************)
(* C9  flush                                                               *)
(***************************************************************************)
\* what the last call, a flush, did to the buffer it found
FlushDoes ==
    op.name = "flush" =>
        IF op.before # <<>>
        THEN /\ ret = apply_patterns(op.before, patterns, {}, 0).out
             /\ buffer = <<>>
        ELSE /\ ret = <<>>
             /\ buffer = <<>>
             /\ stats = op.statsBefore

\* C9: flush on a non-empty buffer returns _apply_patterns of the entire
\* buffer and leaves the buffer empty; flush on an empty buffer returns the
\* empty string and changes neither the buffer nor a counter; a flush
\* directly after a flush returns the empty string.
C9_Flush ==
    /\ []FlushDoes
    /\ [][(op.name = "flush" /\ op'.name = "flush") => ret' = <<>>]_vars

\* C9 witness: a flush found text in the buffer, returned it transformed and
\* left the buffer empty
C9_WitnessFlushTransforms ==
    /\ op.name = "flush"
    /\ op.before = <<"a", "b">>
    /\ ret = <<"X">>
    /\ buffer = <<>>
    /\ stats.patterns_applied = op.statsBefore.patterns_applied + 1

(***************************************************************************)
(* C10  The stream wrappers flush once                                     *)
(***************************************************************************)
\* C10: a stream wrapper that has finished, however the stream ended, has
\* called handler.flush() exactly once, and never transform_chunk after it.
C10_FlushExactlyOnce ==
    gen.pc = "done" => (gen.flush_calls = 1 /\ ~gen.late)

\* C10 amended: a wrapper that was started (next() was called at least once)
\* and has left its loop, by exhaustion, close() or an upstream exception,
\* has called flush exactly once, as the last handler call; no wrapper calls
\* flush twice or transform_chunk after flush; a wrapper closed before its
\* first next() never calls flush.
C10_FlushOnceWhenStarted ==
    /\ gen.flush_calls <= 1 /\ ~gen.late
    /\ (gen.started /\ gen.pc \in {"final", "done"}) => gen.flush_calls = 1
    /\ gen.flush_calls = 1 => op.name = "flush"
    /\ (gen.pc = "done" /\ ~gen.started)
       => (gen.flush_calls = 0 /\ gen.how = "closed")

\* C10 witness: the consumer closed a wrapper that had already yielded
\* transformed text; flush ran once and its text was never delivered
C10_WitnessClosedEarly ==
    /\ gen.pc = "done" /\ gen.how = "closed" /\ gen.started
    /\ gen.flush_calls = 1
    /\ committed # <<>>
    /\ ret # <<>>
    /\ gen.error = "RuntimeError"

(***************************************************************************)
(* C11  Ordering                                                           *)
(***************************************************************************)
\* C11: in a stream that flush has not ended yet, the raw prefixes committed
\* so far, in call order, followed by the buffer are the input chunks
\* concatenated in the order they were supplied.
C11_CommittedThenBufferIsInput ==
    ~flushed => committed \o buffer = fed

\* C11 witness: the second chunk of a stream made the handler commit "ba",
\* which it returned rewritten, and retain "ab"
C11_WitnessCommitAndRetain ==
    /\ ~flushed
    /\ stats.chunks_processed = 2
    /\ fed = <<"b", "a", "a", "b">>
    /\ committed = <<"b", "a">>
    /\ buffer = <<"a", "b">>
    /\ emitted # committed

(***************************************************************************)
(* C12  The empty chunk                                                    *)
(***************************************************************************)
\* C12: transform_chunk("") returns "" and leaves the buffer and the three
\* counters as they were, whatever the state of the handler.
C12_EmptyChunkIsNoOp ==
    (op.name = "transform_chunk" /\ op.chunk = <<>>)
    => /\ ret = <<>>
       /\ buffer = op.before
       /\ stats = op.statsBefore

\* C12 witness: transform_chunk("") on a handler that holds text in its
\* buffer and has counted chunks and replacements
C12_WitnessEmptyChunkMidStream ==
    /\ op.name = "transform_chunk" /\ op.chunk = <<>>
    /\ buffer # <<>>
    /\ stats.chunks_processed >= 2
    /\ stats.patterns_applied >= 1
    /\ ret = <<>>

(***************************************************************************)
(* C13  get_stats returns a snapshot                                       *)
(***************************************************************************)
\* C13: get_stats changes no handler state and returns the counters; a
\* write to the returned dict changes neither the live counters nor the
\* buffer, so that a later get_stats returns the live counters again.
C13_StatsSnapshot ==
    /\ op.name \in {"get_stats", "write"}
       => (stats = op.statsBefore /\ buffer = op.before)
    /\ op.name = "get_stats" => ret.items = stats

\* C13 witness: the caller has changed the dict it got from get_stats, which
\* now differs from the live counters of a handler that has processed text
C13_WitnessSnapshotWritten ==
    /\ op.name = "write"
    /\ stats.chunks_processed >= 1 /\ stats.patterns_applied >= 1
    /\ ret.items.patterns_applied = stats.patterns_applied + 1

(***************************************************************************)
(* C14  OnPattern validates the types of its arguments                     *)
(***************************************************************************)
\* the constructor was given a matcher or a replacement of a wrong type
BadArgumentType ==
    \/ op.pattern.type \notin {"str", "re.Pattern"}
    \/ op.replacement.type \notin {"str", "function"}

\* re is a compiled pattern that matches the literal text t, and only as a
\* whole
CompiledLiteral(re, t, ic) ==
    /\ DOMAIN re = {"pattern", "atoms", "IGNORECASE"}
    /\ re.IGNORECASE = ic
    /\ re_match(re, t, 0) = Len(t)
    /\ finditer(re, t) = IF t = <<>> THEN <<>> ELSE << <<0, Len(t)>> >>

\* C14: constructing an OnPattern raises TypeError, and gives no pattern
\* object, when the matcher is neither a str nor a compiled pattern or the
\* replacement is neither a str nor callable; with any other argument types
\* it succeeds, and the matcher is stored compiled: a str as the pattern
\* that matches it literally, a compiled pattern as itself.
C14_ConstructorTypeError ==
    op.name = "OnPattern"
    => IF BadArgumentType
       THEN ret = TypeError /\ "pattern" \notin DOMAIN ret
       ELSE /\ ret.error = ""
            /\ op.pattern.type = "str"
               => CompiledLiteral(ret.pattern, op.pattern.val, op.ignore_case)
            /\ op.pattern.type = "re.Pattern" => ret.pattern = op.pattern.val

\* C14 witness: a str matcher with a replacement that is neither a str nor
\* callable was refused
C14_WitnessBadReplacement ==
    /\ op.name = "OnPattern"
    /\ op.pattern.type = "str" /\ op.pattern.val = <<"a", "+">>
    /\ op.replacement.type = "NoneType"
    /\ ret = TypeError

(***************************************************************************)
(* C15  Handler instances are isolated                                     *)
(***************************************************************************)
\* C15: with two handlers called in any interleaving, each handler's
\* buffer, counters and last return value are those of a handler that
\* received this handler's calls alone.
C15_HandlersIsolated ==
    peer.on
    => /\ Self = peer.alone[1] /\ ret = peer.aloneRet[1]
       /\ peer.h = peer.alone[2] /\ peer.ret = peer.aloneRet[2]

\* C15 witness: two handlers built from the same pattern list have both
\* processed chunks and are in different states
C15_WitnessInterleaved ==
    /\ peer.on /\ peer.h.patterns = patterns
    /\ stats.chunks_processed >= 2 /\ stats.patterns_applied >= 1
    /\ peer.h.stats.chunks_processed >= 1
    /\ peer.h.stats.patterns_applied = 0
    /\ buffer # <<>> /\ peer.h.buffer # <<>> /\ buffer # peer.h.buffer

(***************************************************************************)
(* C16  Forced flush                                                       *)
(***************************************************************************)
\* no pattern of the list matches anywhere in the input of the stream
NoPatternMatches ==
    \A k \in 1..Len(patterns) : finditer(patterns[k].pattern, fed) = <<>>

\* C16 as stated: once the chunks fed add up to more than max_buffer_size
\* and no pattern matches, some transform_chunk call of the stream has taken
\* the overflow branch, whatever the chunk sizes.
C16_CumulativeLengthForcesFlush ==
    (Len(fed) > max_buffer_size /\ NoPatternMatches) => forced

\* C16 amended: with no pattern matching, a transform_chunk call takes the
\* overflow branch exactly when the buffer with the chunk appended is longer
\* than max_buffer_size, so a chunk that is itself longer than
\* max_buffer_size always forces a flush, and a stream with a forced flush
\* has fed more than max_buffer_size characters.
C16_OverflowForcesFlush ==
    NoPatternMatches
    => /\ (op.name = "transform_chunk" /\ op.chunk # <<>>)
          => /\ op.overflow <=> Len(op.before \o op.chunk) > max_buffer_size
             /\ op.overflow => forced
             /\ Len(op.chunk) > max_buffer_size => forced
       /\ forced => Len(fed) > max_buffer_size

\* C16 witness: chunks no longer than max_buffer_size, none matched by the
\* pattern, have filled the buffer beyond max_buffer_size
C16_WitnessForcedBySmallChunks ==
    /\ op.name = "transform_chunk" /\ op.overflow /\ forced
    /\ patterns # <<>> /\ NoPatternMatches
    /\ op.before # <<>>
    /\ Len(op.chunk) <= max_buffer_size
    /\ ret # <<>>

(***************************************************************************)
(* C17  flush when pattern application raises                              *)
(***************************************************************************)
\* C17: a flush during which pattern application raises counts an error,
\* leaves the buffer empty and returns the buffer as it was, untransformed.
C17_FlushErrorReturnsBuffer ==
    (op.name = "flush" /\ op.caught)
    => /\ stats.errors > op.statsBefore.errors
       /\ buffer = <<>>
       /\ ret = op.before
       /\ ~op.escaped

\* C17 witness: pattern application raised in a flush of a buffer that an
\* unfailing flush would have transformed
C17_WitnessFlushCaught ==
    /\ op.name = "flush" /\ op.caught
    /\ op.before # <<>> /\ ret = op.before
    /\ flush(SelfBefore, {}, 0).ret # op.before
    /\ stats.errors = op.statsBefore.errors + 1

(***************************************************************************)
(* C18  The replacement cap is counted per call                            *)
(***************************************************************************)
\* C18: the count of max_replacements starts at zero in every call that
\* applies patterns: a call on a handler whose single pattern, capped at k,
\* has made k or more replacements in earlier calls still replaces the k
\* leftmost matches of the text it commits.
C18_CapCountedPerCall ==
    (/\ Applied /\ PlainCall
     /\ Len(patterns) = 1 /\ ~AlwaysRaises(patterns[1])
     /\ patterns[1].max_replacements >= 0
     /\ op.statsBefore.patterns_applied >= patterns[1].max_replacements)
    => /\ stats.patterns_applied - op.statsBefore.patterns_applied
             = Min(Occurrences(patterns[1], op.processed),
                   patterns[1].max_replacements)
       /\ ret = ReplaceFirst(patterns[1], op.processed,
                             finditer(patterns[1].pattern, op.processed), 0,
                             Min(Occurrences(patterns[1], op.processed),
                                 patterns[1].max_replacements))

\* C18 witness: in one stream, "a" -> "X" capped at 1 has replaced in a
\* transform_chunk call and replaces again in the flush
C18_WitnessSecondCallReplaces ==
    /\ patterns = <<P_cap>>
    /\ StreamEnded /\ PlainCall
    /\ stats.chunks_processed = 1
    /\ op.statsBefore.patterns_applied = 1
    /\ stats.patterns_applied = 2
    /\ emitted = <<"X", "a", "X", "a">>

(***************************************************************************)
(* C19  The threshold formula                                              *)
(***************************************************************************)
\* L: the largest pattern source length of a non-empty list
LongestSource ==
    LET lens == {Len(patterns[k].pattern.pattern) : k \in 1..Len(patterns)}
    IN  CHOOSE x \in lens : \A y \in lens : y <= x

\* C19 as stated: buffer_threshold = clamp(L + 50, lower = 50, upper =
\* max_buffer_size / 2), and 50 for the empty list.  The half is taken as
\* the integer half, and the clamp in either order of its two bounds.
C19_ThresholdIsClamp ==
    IF patterns = <<>> THEN buffer_threshold = 50
    ELSE buffer_threshold
            \in { Min(Max(LongestSource + 50, 50), max_buffer_size \div 2),
                  Max(50, Min(LongestSource + 50, max_buffer_size \div 2)) }

\* C19 amended: the minimum 50 bounds L before the margin is added:
\* buffer_threshold = min(max(L, 50) + 50, max_buffer_size // 2), that is
\* min(100, max_buffer_size // 2) for every list whose patterns are no
\* longer than 50; and 50 for the empty list.
C19_ThresholdFloorsLength ==
    IF patterns = <<>> THEN buffer_threshold = 50
    ELSE IF LongestSource <= 50
    THEN buffer_threshold = Min(100, max_buffer_size \div 2)
    ELSE buffer_threshold = Min(LongestSource + 50, max_buffer_size \div 2)

\* C19 witness: a handler with the default max_buffer_size whose only
\* pattern has a source of two characters: the threshold is 100, not 52
C19_WitnessShortPatternDefaultSize ==
    /\ op.name = "__init__"
    /\ patterns = <<P_ab>> /\ LongestSource = 2
    /\ max_buffer_size = MAX_BUFFER_SIZE
    /\ buffer_threshold = 100

(***************************************************************************)
(* C20  The boundary cuts no completed match                               *)
(***************************************************************************)
\* the buffer _find_safe_boundary of the last transform_chunk call looked at
BufferAtBoundary == op.before \o op.chunk

\* the boundary never lies strictly inside the match m = <<start, end>>
NotCut(m, boundary) == ~(m[1] < boundary /\ boundary < m[2])

\* C20: in a transform_chunk call whose buffer is no longer than
\* max_buffer_size, the boundary at which the buffer is cut (the length of
\* the committed prefix) lies strictly inside no match that any pattern of
\* the list has in the buffer.
C20_BoundaryCutsNoMatch ==
    (/\ op.name = "transform_chunk" /\ op.chunk # <<>>
     /\ Len(BufferAtBoundary) <= max_buffer_size)
    => \A k \in 1..Len(patterns) :
          \A i \in 1..Len(finditer(patterns[k].pattern, BufferAtBoundary)) :
             NotCut(finditer(patterns[k].pattern, BufferAtBoundary)[i],
                    Len(op.processed))

(***************************************************************************)
(* C21  The committed prefix holds no partially arrived match              *)
(***************************************************************************)
\* the pattern is a literal text: every atom is one character, none repeated
IsLiteral(re) ==
    \A i \in 1..Len(re.atoms) :
        Cardinality(re.atoms[i].cls) = 1 /\ ~re.atoms[i].plus

\* the text of buf from offset s to its end is a proper, non-empty prefix of
\* the literal pattern re
PartialAt(re, buf, s) ==
    /\ s < Len(buf)
    /\ Len(buf) - s < Len(re.atoms)
    /\ \A i \in 1..(Len(buf) - s) :
          CharMatches(buf[s + i], re.atoms[i], re.IGNORECASE)

\* no partial match of the literal pattern re begins in the prefix the last
\* call committed
NoPartialCommitted(re) ==
    \A s \in 0..(Len(op.processed) - 1) : ~PartialAt(re, BufferAtBoundary, s)

\* C21 as stated: in a transform_chunk call whose buffer is no longer than
\* max_buffer_size, no proper non-empty prefix of a pattern's literal text
\* begins before the boundary and runs to the end of the buffer.
C21_NoPartialMatchCommitted ==
    (/\ op.name = "transform_chunk" /\ op.chunk # <<>>
     /\ Len(BufferAtBoundary) <= max_buffer_size)
    => \A k \in 1..Len(patterns) :
          IsLiteral(patterns[k].pattern) => NoPartialCommitted(patterns[k].pattern)

\* C21 amended: the same for every pattern whose literal text is no longer
\* than buffer_threshold.
C21_NoPartialMatchOfShortPattern ==
    (/\ op.name = "transform_chunk" /\ op.chunk # <<>>
     /\ Len(BufferAtBoundary) <= max_buffer_size)
    => \A k \in 1..Len(patterns) :
          (/\ IsLiteral(patterns[k].pattern)
           /\ Len(patterns[k].pattern.atoms) <= buffer_threshold)
          => NoPartialCommitted(patterns[k].pattern)

\* C21 witness: a call committed a prefix while the buffer ended with the
\* first character of the pattern "ab", which stays in the buffer
C21_WitnessPartialHeldBack ==
    /\ op.name = "transform_chunk" /\ op.processed # <<>>
    /\ patterns = <<P_ab>>
    /\ Len(BufferAtBoundary) <= max_buffer_size
    /\ PartialAt(P_ab.pattern, BufferAtBoundary, Len(BufferAtBoundary) - 1)
    /\ buffer = <<"b", "a">>

(***************************************************************************)
(* C22  Below the threshold nothing is committed                           *)
(***************************************************************************)
\* C22: a transform_chunk call after whose append the buffer is shorter than
\* buffer_threshold and shorter than max_buffer_size gets boundary 0,
\* returns the empty string and keeps the whole accumulated text.
C22_BelowThresholdKeepsAll ==
    (/\ op.name = "transform_chunk" /\ op.chunk # <<>>
     /\ Len(BufferAtBoundary) < buffer_threshold
     /\ Len(BufferAtBoundary) < max_buffer_size)
    => /\ find_safe_boundary(BufferAtBoundary, patterns, buffer_threshold,
                             max_buffer_size) = 0
       /\ ret = <<>> /\ op.processed = <<>>
       /\ buffer = BufferAtBoundary
       /\ stats.patterns_applied = op.statsBefore.patterns_applied

\* C22 witness: the second chunk of a stream leaves the buffer, which holds
\* a complete match, under the threshold of 50: nothing is returned
C22_WitnessStillBelowThreshold ==
    /\ op.name = "transform_chunk" /\ patterns = <<P_ab>>
    /\ op.before = <<"a", "b">> /\ op.chunk = Fill
    /\ Len(buffer) = FillLen + 2 /\ Len(buffer) < buffer_threshold
    /\ ret = <<>>

(***************************************************************************)
(* C23  The overflow branch consults no pattern                            *)
(***************************************************************************)
\* C23: a transform_chunk call after whose append the buffer is longer than
\* max_buffer_size cuts it at max(0, len(buffer) - buffer_threshold),
\* whatever the patterns match, and so retains exactly the last
\* buffer_threshold characters when the buffer is longer than the threshold.
C23_OverflowBoundary ==
    (/\ op.name = "transform_chunk" /\ op.chunk # <<>>
     /\ Len(BufferAtBoundary) > max_buffer_size)
    => /\ Len(op.processed) = Max(0, Len(BufferAtBoundary) - buffer_threshold)
       /\ op.processed \o buffer = BufferAtBoundary
       /\ Len(BufferAtBoundary) > buffer_threshold
          => /\ Len(buffer) = buffer_threshold
             /\ buffer = PyFrom(BufferAtBoundary,
                                Len(BufferAtBoundary) - buffer_threshold)

\* C23 witness: the overflowing buffer "aaabb" is cut at 3, inside the match
\* of "ab" at (2, 4)
C23_WitnessOverflowCutsMatch ==
    /\ op.name = "transform_chunk" /\ op.overflow
    /\ patterns = <<P_ab>> /\ max_buffer_size = 4
    /\ BufferAtBoundary = <<"a", "a", "a", "b", "b">>
    /\ finditer(P_ab.pattern, BufferAtBoundary) = << <<2, 4>> >>
    /\ op.processed = <<"a", "a", "a">>
    /\ buffer = <<"b", "b">>

(***************************************************************************)
(* C24  The boundary holds back the threshold                              *)
(***************************************************************************)
\* the boundary _find_safe_boundary returned in the last transform_chunk call
LastBoundary ==
    find_safe_boundary(BufferAtBoundary, patterns, buffer_threshold,
                       max_buffer_size)

\* C24: the boundary of a transform_chunk call is between 0 and the length
\* of the buffer, and when positive at most len(buffer) - buffer_threshold;
\* so a call that commits text keeps at least buffer_threshold characters.
C24_BoundaryHoldsBackThreshold ==
    (op.name = "transform_chunk" /\ op.chunk # <<>>)
    => /\ 0 <= LastBoundary /\ LastBoundary <= Len(BufferAtBoundary)
       /\ LastBoundary > 0
          => LastBoundary <= Len(BufferAtBoundary) - buffer_threshold
       /\ Len(op.processed) = LastBoundary
       /\ op.processed # <<>> => Len(buffer) >= buffer_threshold

\* C24 witness: the match of "ab" at (2, 4) pulls the boundary of "bbabb"
\* from 3 back to 2: three characters are kept, one more than the threshold
C24_WitnessPulledBack ==
    /\ op.name = "transform_chunk"
    /\ patterns = <<P_ab>> /\ max_buffer_size = 5 /\ buffer_threshold = 2
    /\ BufferAtBoundary = <<"b", "b", "a", "b", "b">>
    /\ LastBoundary = 2
    /\ buffer = <<"a", "b", "b">>

(***************************************************************************)
(* C25  Patterns are applied in list order                                 *)
(***************************************************************************)
\* the substitution of one pattern in a text: the matches of the pattern in
\* that text replaced from the left, up to the cap; a pattern whose
\* replacement always raises leaves the text as it is
SubstituteAll(handler, text) ==
    IF AlwaysRaises(handler) THEN text
    ELSE ReplaceFirst(handler, text, finditer(handler.pattern, text), 0,
                      handler.max_replacements)

\* the substitutions of the patterns from position k on, composed in list
\* order
RECURSIVE InListOrder(_, _, _)
InListOrder(text, pats, k) ==
    IF k > Len(pats) THEN text
    ELSE InListOrder(SubstituteAll(pats[k], text), pats, k + 1)

\* C25: the result of _apply_patterns is the composition, in list order, of
\* the substitutions of the single patterns, each made in the text the one
\* before it produced.
C25_SequentialComposition ==
    (Applied /\ PlainCall) => ret = InListOrder(op.processed, patterns, 1)

\* C25 witness: "a" -> "b" turns "ab" into "bb", which the second pattern
\* "bb" -> "X", without a match in "ab", then replaces
C25_WitnessLaterPatternSeesReplacement ==
    /\ op.name = "flush" /\ PlainCall
    /\ patterns = <<P_a2b, P_bb>>
    /\ op.processed = <<"a", "b">>
    /\ finditer(P_bb.pattern, op.processed) = <<>>
    /\ ret = <<"X">>
    /\ stats.patterns_applied = op.statsBefore.patterns_applied + 2

(***************************************************************************)
(* C26  Text is not withheld forever                                       *)
(***************************************************************************)
\* the longest buffer a call can leave without committing anything
WithheldLimit == Max(buffer_threshold, max_buffer_size)

\* C26: a transform_chunk call with a non-empty chunk that commits nothing
\* keeps the buffer with the chunk appended, which is longer than before,
\* and every call whose buffer is longer than both buffer_threshold and
\* max_buffer_size commits a non-empty prefix, whatever the patterns match.
\* Hence a run of non-empty chunks commits text after at most
\* max(buffer_threshold, max_buffer_size) + 1 characters.
C26_WithheldTextIsBounded ==
    (op.name = "transform_chunk" /\ op.chunk # <<>>)
    => /\ op.processed = <<>>
          => /\ buffer = BufferAtBoundary
             /\ Len(buffer) > Len(op.before)
             /\ Len(buffer) <= WithheldLimit
       /\ Len(BufferAtBoundary) > WithheldLimit => op.processed # <<>>

\* C26 witness: the match of "a+b" in "aaab" held the whole buffer back;
\* the next chunk makes the buffer longer than max_buffer_size and a prefix
\* is committed although the match has not been resolved
C26_WitnessCommitAfterWithholding ==
    /\ op.name = "transform_chunk" /\ patterns = <<P_re>>
    /\ max_buffer_size = 4
    /\ op.before = <<"a", "a", "a", "b">> /\ committed = op.processed
    /\ Len(BufferAtBoundary) > WithheldLimit
    /\ op.processed = <<"a", "a", "a">>

(***************************************************************************)
(* C27  What the stream wrapper yields                                     *)
(***************************************************************************)
\* the upstream was exhausted and the finally block has run
ConsumedToEnd == gen.how = "exhausted" /\ gen.pc \in {"final", "done"}

\* C27: when the stream was consumed to its end, the contents of the chunks
\* yielded, concatenated, are the transform_chunk results in upstream order
\* followed by the flush result.  A chunk is yielded with content only for
\* a non-empty transform_chunk result, a transform_chunk result that is
\* empty yields nothing, a chunk without content is yielded as it came, and
\* the flushed text is yielded by the finally block, after all others.
C27_YieldedContent ==
    /\ ConsumedToEnd => (gen.out = emitted /\ op.name = "flush")
    /\ gen.last = "content"
       => (gen.pc = "suspended" /\ op.name = "transform_chunk" /\ ret # <<>>)
    /\ gen.pc = "running"
       => (gen.last = "none" /\ op.name = "transform_chunk" /\ ret = <<>>)
    /\ gen.last = "nocontent" => gen.pc = "suspended"
    /\ gen.last = "flush"
       => (gen.pc = "final" /\ op.name = "flush" /\ ret # <<>>)
    /\ (ConsumedToEnd /\ gen.pc = "final") => gen.last = "flush"

\* C27 witness: a stream consumed to its end in which a chunk was yielded
\* with transformed content and the finally block has yielded the flushed
\* text
C27_WitnessTransformedThenFlushed ==
    /\ ConsumedToEnd /\ gen.pc = "final" /\ gen.last = "flush"
    /\ op.statsBefore.chunks_processed >= 3
    /\ emitted # ret /\ ret # <<>>
    /\ gen.out = fed

(***************************************************************************)
(* C28  patterns_applied counts the successful replacements                *)
(***************************************************************************)
\* the matches of one pattern in a text that are replaced: none when the
\* replacement always raises, otherwise all of them up to the cap
Successes(handler, text) ==
    IF AlwaysRaises(handler) THEN 0
    ELSE IF handler.max_replacements < 0 THEN Occurrences(handler, text)
    ELSE Min(Occurrences(handler, text), handler.max_replacements)

\* the matches of one pattern whose replacement is tried and raises: a
\* failure uses up nothing of the cap, so every match is tried unless the
\* cap is 0
Failures(handler, text) ==
    IF AlwaysRaises(handler) /\ handler.max_replacements # 0
    THEN Occurrences(handler, text) ELSE 0

\* the replacements made, and those that failed, by the patterns from
\* position k on, each in the text the pattern before it produced
RECURSIVE SuccessesInOrder(_, _, _)
SuccessesInOrder(text, pats, k) ==
    IF k > Len(pats) THEN 0
    ELSE Successes(pats[k], text)
         + SuccessesInOrder(SubstituteAll(pats[k], text), pats, k + 1)

RECURSIVE FailuresInOrder(_, _, _)
FailuresInOrder(text, pats, k) ==
    IF k > Len(pats) THEN 0
    ELSE Failures(pats[k], text)
         + FailuresInOrder(SubstituteAll(pats[k], text), pats, k + 1)

\* C28: every call adds to patterns_applied the number of matches it
\* replaced: one per replaced match, none for a match left alone because of
\* the cap and none for a match whose replacement function raised, which is
\* counted in errors and uses up nothing of the cap; a call that applies no
\* pattern leaves patterns_applied as it was.
C28_PatternsAppliedCountsSuccesses ==
    /\ (Applied /\ PlainCall)
       => /\ stats.patterns_applied - op.statsBefore.patterns_applied
                = SuccessesInOrder(op.processed, patterns, 1)
          /\ stats.errors - op.statsBefore.errors
                = FailuresInOrder(op.processed, patterns, 1)
    /\ ~Applied => /\ stats.patterns_applied = op.statsBefore.patterns_applied
                   /\ stats.errors = op.statsBefore.errors

\* C28 witness: the replacement of "a", capped at 1, raised for each of the
\* two matches of the text: two errors, nothing applied, the text unchanged
C28_WitnessFailuresBeyondCap ==
    /\ patterns = <<P_capraise>> /\ Applied /\ PlainCall
    /\ op.processed = <<"a", "a">>
    /\ ret = op.processed
    /\ stats.errors = op.statsBefore.errors + 2
    /\ stats.patterns_applied = 0

(***************************************************************************)
(* C29  Closing the stream wrapper early                                   *)
(***************************************************************************)
\* C29: when the consumer closes the wrapper at a yield of the loop while
\* the handler holds buffered text, the close runs flush once, raises no
\* error and leaves the generator finished.
C29_EarlyCloseCompletes ==
    (/\ gen.how = "closed" /\ gen.started
     /\ op.name = "flush" /\ op.before # <<>>)
    => /\ gen.flush_calls = 1
       /\ gen.error = "none"
       /\ gen.pc = "done"

(***************************************************************************)
(* C30  chunks_processed counts the non-empty chunks                       *)
(***************************************************************************)
\* C30: chunks_processed is 0 after construction, every transform_chunk
\* call with a non-empty chunk adds one to it whether or not the call
\* commits text or pattern application raises, and a transform_chunk call
\* with an empty chunk, flush and get_stats leave it as it was.
C30_ChunksProcessedCountsChunks ==
    /\ op.name = "__init__" => stats.chunks_processed = 0
    /\ op.name = "transform_chunk"
       => stats.chunks_processed
             = op.statsBefore.chunks_processed
                  + (IF op.chunk # <<>> THEN 1 ELSE 0)
    /\ op.name \in {"flush", "get_stats"}
       => stats.chunks_processed = op.statsBefore.chunks_processed

\* C30 witness: two non-empty chunks were counted although neither call
\* committed any text
C30_WitnessCountedWithoutCommit ==
    /\ op.name = "transform_chunk" /\ op.chunk # <<>>
    /\ op.processed = <<>> /\ committed = <<>> /\ emitted = <<>>
    /\ op.before # <<>>
    /\ stats.chunks_processed = 2

====
